---- MODULE Spec2Model ----
(***************************************************************************)
(* A model of hecs' EntityBuilder (src/src/entity_builder.rs): the raw     *)
(* growable store, the slot directory (info), the type-id index (indices), *)
(* the id snapshot (ids), and the build / consume protocol of both the     *)
(* plain builder (EntityBuilder<()> / BuiltEntity) and the cloneable one   *)
(* (EntityBuilder<Cloneable> / ReusableBuiltEntity).                       *)
(*                                                                         *)
(* Values are tracked by identity: every value that is added or cloned     *)
(* gets a fresh id, and the model records every destructor call made on    *)
(* it (and with which type descriptor) and every hand-over to a sink.      *)
(* Memory is tracked per allocated region as a map from byte offset to the *)
(* value whose bytes were copied there.                                    *)
(***************************************************************************)
EXTENDS Integers, Sequences, FiniteSets, TLC

\* ---------------------------------------------------------------- bounds
MaxAdded == 3      \* values the caller may add over a run
MaxCloned == 4     \* values the clone thunks may create over a run
MaxBundle == 2     \* components in one add_bundle call
MaxAddedClone == 3 \* values the caller may add in the runs with clone
MaxClonedClone == 3 \* values clone may create in the runs with clone

\* ------------------------------------------------------ component types
\* The component types used by the runs: their layout (size, align).  The
\* position in the table is the runtime type identifier.  1 is the i32 of
\* the doc examples, 2 is a small over-aligned type (a u128) whose insertion
\* can force a reallocation by its alignment alone, 3 is a large type whose
\* insertion forces growth past the 64 byte floor.
TypeTable ==
    << [size |-> 4,  align |-> 4],
       [size |-> 16, align |-> 16],
       [size |-> 72, align |-> 8] >>

Types == 1 .. Len(TypeTable)

SizeOf(ty) == TypeTable[ty].size

AlignOf(ty) == TypeTable[ty].align

\* TypeInfo's ordering (the sort key of build): by type identifier.
TypeInfoLess(a, b) == a < b

\* crate::align: round x up to a multiple of alignment.
align(x, alignment) == ((x + alignment - 1) \div alignment) * alignment

\* usize::next_power_of_two
RECURSIVE PowerOfTwoFrom(_, _)
PowerOfTwoFrom(p, n) == IF p >= n THEN p ELSE PowerOfTwoFrom(2 * p, n)

next_power_of_two(n) == PowerOfTwoFrom(1, n)

Max(a, b) == IF a >= b THEN a ELSE b

\* ----------------------------------------------------------------- state
VARIABLES
    kind,   \* "plain": EntityBuilder<()>, "cloneable": EntityBuilder<Cloneable>
    bld,    \* builder id -> the EntityBuilder struct and who owns it
    heap,   \* the calls to alloc so far: one region per call
    vals,   \* value id -> its type, the destructor calls and hand-overs on it
    sink    \* what the last consumption (put) handed to the receiving store

vars == << kind, bld, heap, vals, sink >>

\* builder objects: the first one, and the one a clone of it creates
Builders == {1, 2}

\* NonNull::dangling(): no region
Dangling == 0

\* EntityBuilder::default, st = "builder": the struct is owned as a builder
Default ==
    [ st      |-> "builder",
      storage |-> Dangling,
      size    |-> 0,          \* layout.size()
      align   |-> 8,          \* layout.align()
      cursor  |-> 0,
      info    |-> << >>,      \* Vec<(TypeInfo, usize, M)>
      ids     |-> << >>,      \* Vec<TypeId>
      indices |-> << >> ]     \* TypeIdMap<usize>: type id -> position in info

\* a builder id not in use yet
Unused == [Default EXCEPT !.st = "none"]

\* EntityBuilder::has
has(B, T) == T \in DOMAIN B.indices

\* Option::None of get / get_mut
Absent == -1

\* EntityBuilder::get and get_mut: the offset the returned reference points to
get(B, T) == IF ~has(B, T) THEN Absent ELSE B.info[B.indices[T]].off

\* the value stored at byte offset off of builder B's storage
ValueAt(S, B, off) == S.heap[B.storage].mem[off].val

\* ty.drop(ptr): run the destructor of descriptor ty on value v
DropValue(vs, v, ty) ==
    [vs EXCEPT ![v].drops = @ + 1,
               ![v].wrong = @ \/ (vs[v].ty # ty)]

\* ptr::copy_nonoverlapping(ptr, storage + off, n) where ptr holds value v:
\* the n bytes at off now are v's; whatever overlapped them is gone.
Store(mem, off, n, v) ==
    LET keep == {o \in DOMAIN mem : o + mem[o].len <= off \/ off + n <= o}
    IN  [o \in keep \cup {off} |->
            IF o = off THEN [val |-> v, len |-> n] ELSE mem[o]]

\* the first cursor bytes of a region's contents
Prefix(mem, cursor) ==
    [o \in {x \in DOMAIN mem : x < cursor} |-> mem[o]]

\* alloc(layout): a fresh region
Region(size, al, mem) ==
    [size |-> size, align |-> al, null |-> FALSE, freed |-> 0, mem |-> mem]

\* dealloc(storage, layout): the region is released, its contents are gone
dealloc(h, r) == [h EXCEPT ![r].freed = @ + 1, ![r].mem = << >>]

\* a growth that allocates and forgets to copy
growNoCopy(S, min_size, cursor, al, storage) ==
    Region(Max(next_power_of_two(min_size), 64), al, << >>)

\* EntityBuilder::grow: the new region, holding a copy of the live prefix
grow(S, min_size, cursor, al, storage) ==
    Region(Max(next_power_of_two(min_size), 64), al,
           IF storage = Dangling THEN << >>
           ELSE Prefix(S.heap[storage].mem, cursor))

\* a new slot placed at the cursor as it is
SlotOffsetUnaligned(B, ty) == B.cursor

\* where add_inner places a new slot: align(self.cursor, ty.layout().align())
SlotOffset(B, ty) == align(B.cursor, AlignOf(ty))

\* a test for reallocation that looks at the size only
NeedsGrowSizeOnly(B, ty, end) == end > B.size

\* an end computed with the alignment in place of the size
SlotEndByAlign(offset, ty) == offset + AlignOf(ty)

\* the end of a new slot: offset + ty.layout().size()
SlotEnd(offset, ty) == offset + SizeOf(ty)

\* add_inner's test for reallocation
NeedsGrow(B, ty, end) == end > B.size \/ AlignOf(ty) > B.align

\* EntityBuilder::add_inner, on the state S = [bld, heap, vals]: add value v
\* (already created, at ptr) with descriptor ty and metadata meta to builder b
add_inner(S, b, v, ty, meta) ==
    LET B == S.bld[b] IN
    IF ty \in DOMAIN B.indices
    THEN \* Entry::Occupied
        LET index == B.indices[ty]
            slot  == B.info[index]
        IN  [S EXCEPT
                !.vals = DropValue(@, ValueAt(S, B, slot.off), slot.ty),
                !.heap[B.storage].mem = Store(@, slot.off, SizeOf(slot.ty), v)]
    ELSE \* Entry::Vacant
        LET offset == SlotOffset(B, ty)
            end    == SlotEnd(offset, ty)
            grows  == NeedsGrow(B, ty, end)
            new_align == Max(B.align, AlignOf(ty))
            new_storage == Len(S.heap) + 1
            heap1  == IF grows
                      THEN Append(S.heap,
                                  grow(S, end, B.cursor, new_align, B.storage))
                      ELSE S.heap
            heap2  == IF grows /\ B.size # 0
                      THEN dealloc(heap1, B.storage)
                      ELSE heap1
            st     == IF grows THEN new_storage ELSE B.storage
        IN  [S EXCEPT
                !.heap = [heap2 EXCEPT ![st].mem = Store(@, offset, SizeOf(ty), v)],
                !.bld[b] = [B EXCEPT
                    !.storage = st,
                    !.size    = IF grows THEN heap1[new_storage].size ELSE @,
                    !.align   = IF grows THEN new_align ELSE @,
                    !.indices = (ty :> (Len(B.info) + 1)) @@ @,
                    !.info    = Append(@, [ty |-> ty, off |-> offset, meta |-> meta]),
                    !.cursor  = end]]

\* the destructor calls of clear's drain loop, slot by slot
RECURSIVE DropSlots(_, _, _, _)
DropSlots(S, B, info, vs) ==
    IF info = << >> THEN vs
    ELSE DropSlots(S, B, Tail(info),
                   DropValue(vs, ValueAt(S, B, Head(info).off), Head(info).ty))

\* a clear that forgets to reset the cursor
clearKeepsCursor(S, b) ==
    LET B == S.bld[b] IN
    [S EXCEPT !.vals = DropSlots(S, B, B.info, @),
              !.bld[b] = [B EXCEPT !.ids = << >>, !.indices = << >>,
                                   !.info = << >>]]

\* EntityBuilder::clear
clear(S, b) ==
    LET B == S.bld[b] IN
    [S EXCEPT !.vals = DropSlots(S, B, B.info, @),
              !.bld[b] = [B EXCEPT !.ids = << >>, !.indices = << >>,
                                   !.cursor = 0, !.info = << >>]]

\* a value the caller constructs, of type ty
NewValue(ty) == [ty |-> ty, src |-> 0, drops |-> 0, wrong |-> FALSE, put |-> 0]

\* the values added by the caller so far, and those made by clone thunks
Added == {v \in DOMAIN vals : vals[v].src = 0}

Cloned == {v \in DOMAIN vals : vals[v].src # 0}

\* the run may still add n values / clone the slots of builder b
MayAdd(n) == Cardinality(Added) + n <= MaxAdded

MayClone(b) == Cardinality(Cloned) + Len(bld[b].info) <= MaxCloned

Here == [bld |-> bld, heap |-> heap, vals |-> vals]

Become(S) == bld' = S.bld /\ heap' = S.heap /\ vals' = S.vals

\* the components of a bundle are handed to add_inner one after the other
RECURSIVE PutBundle(_, _, _)
PutBundle(S, b, ts) ==
    IF ts = << >> THEN S
    ELSE LET v  == Len(S.vals) + 1
             S1 == [S EXCEPT !.vals = Append(@, NewValue(Head(ts)))]
         IN  PutBundle(add_inner(S1, b, v, Head(ts), "unit"), b, Tail(ts))

Bundles == UNION {[1 .. n -> Types] : n \in 1 .. MaxBundle}

\* EntityBuilder<()>::add_bundle (and add, a bundle of one)
AddBundle(b, ts) ==
    /\ kind = "plain"
    /\ MayAdd(Len(ts))
    /\ bld[b].st = "builder"
    /\ Become(PutBundle(Here, b, ts))
    /\ UNCHANGED << kind, sink >>

\* EntityBuilder::clear, called by the owner
Clear(b) ==
    /\ bld[b].st = "builder"
    /\ Become(clear(Here, b))
    /\ UNCHANGED << kind, sink >>

\* ------------------------------------------------------------ plain build
\* insertion of slot x into a directory sorted by descriptor
RECURSIVE InsertSlot(_, _)
InsertSlot(sorted, x) ==
    IF sorted = << >> THEN << x >>
    ELSE IF TypeInfoLess(x.ty, Head(sorted).ty) THEN << x >> \o sorted
    ELSE << Head(sorted) >> \o InsertSlot(Tail(sorted), x)

\* a build that leaves the directory in insertion order
NoSort(info) == info

\* info.sort_unstable_by_key(|x| x.0)
RECURSIVE sort_unstable_by_key(_)
sort_unstable_by_key(info) ==
    IF info = << >> THEN << >>
    ELSE InsertSlot(sort_unstable_by_key(SubSeq(info, 1, Len(info) - 1)),
                    info[Len(info)])

\* ids.extend(info.iter().map(|x| x.0.id()))
ExtendIds(ids, info) == ids \o [i \in 1 .. Len(info) |-> info[i].ty]

\* the sort and snapshot shared by both build flavours
Freeze(B) ==
    LET sorted == sort_unstable_by_key(B.info)
    IN  [B EXCEPT !.info = sorted, !.ids = ExtendIds(B.ids, sorted)]

\* EntityBuilder<()>::build: the builder is borrowed by a BuiltEntity
Build(b) ==
    /\ kind = "plain"
    /\ bld[b].st = "builder"
    /\ bld' = [bld EXCEPT ![b] = [Freeze(bld[b]) EXCEPT !.st = "built"]]
    /\ UNCHANGED << kind, heap, vals, sink >>

\* what BuiltEntity::put hands to f, slot by slot
HandOver(S, B) ==
    [i \in 1 .. Len(B.info) |->
        [val |-> ValueAt(S, B, B.info[i].off),
         ty  |-> B.info[i].ty,
         off |-> B.info[i].off]]

RECURSIVE MarkPut(_, _)
MarkPut(vs, items) ==
    IF items = << >> THEN vs
    ELSE MarkPut([vs EXCEPT ![Head(items).val].put = @ + 1], Tail(items))

\* a put that iterates the directory without draining it
PutNoDrain(b) ==
    /\ bld[b].st = "built"
    /\ LET B     == bld[b]
           items == HandOver(Here, B)
           S1    == [Here EXCEPT !.vals = MarkPut(@, items)]
           S2    == clear(S1, b)
       IN  /\ Become([S2 EXCEPT !.bld[b].st = "builder"])
           /\ sink' = [b |-> b, ids |-> B.ids, items |-> items]
    /\ UNCHANGED kind

\* a put after which the BuiltEntity is forgotten, not dropped
PutNoClear(b) ==
    /\ bld[b].st = "built"
    /\ LET B     == bld[b]
           items == HandOver(Here, B)
       IN  /\ Become([Here EXCEPT !.vals = MarkPut(@, items),
                                  !.bld[b].info = << >>,
                                  !.bld[b].st = "builder"])
           /\ sink' = [b |-> b, ids |-> B.ids, items |-> items]
    /\ UNCHANGED kind

\* BuiltEntity::put: drain the directory into the sink; then self is dropped
\* (impl Drop for BuiltEntity), which clears the builder
Put(b) ==
    /\ bld[b].st = "built"
    /\ LET B     == bld[b]
           items == HandOver(Here, B)
           S1    == [Here EXCEPT !.vals = MarkPut(@, items),
                                 !.bld[b].info = << >>]
           S2    == clear(S1, b)
       IN  /\ Become([S2 EXCEPT !.bld[b].st = "builder"])
           /\ sink' = [b |-> b, ids |-> B.ids, items |-> items]
    /\ UNCHANGED kind

\* a BuiltEntity whose drop does nothing
DropBuiltNoClear(b) ==
    /\ bld[b].st = "built"
    /\ Become([Here EXCEPT !.bld[b].st = "builder"])
    /\ UNCHANGED << kind, sink >>

\* impl Drop for BuiltEntity, put never called
DropBuilt(b) ==
    /\ bld[b].st = "built"
    /\ Become([clear(Here, b) EXCEPT !.bld[b].st = "builder"])
    /\ UNCHANGED << kind, sink >>

\* -------------------------------------------------------- cloneable flavour
\* EntityBuilder<Cloneable>::add: the metadata is the clone thunk of T
AddCloneable(b, ty) ==
    /\ kind = "cloneable"
    /\ MayAdd(1)
    /\ bld[b].st = "builder"
    /\ LET v  == Len(vals) + 1
           S1 == [Here EXCEPT !.vals = Append(@, NewValue(ty))]
       IN  Become(add_inner(S1, b, v, ty, ty))
    /\ UNCHANGED << kind, sink >>

\* From<EntityBuilder<Cloneable>> for ReusableBuiltEntity (build)
BuildCloneable(b) ==
    /\ kind = "cloneable"
    /\ bld[b].st = "builder"
    /\ bld' = [bld EXCEPT ![b] = [Freeze(bld[b]) EXCEPT !.st = "reusable"]]
    /\ UNCHANGED << kind, heap, vals, sink >>

\* From<ReusableBuiltEntity> for EntityBuilder<Cloneable>
IntoBuilder(b) ==
    /\ bld[b].st = "reusable"
    /\ bld' = [bld EXCEPT ![b] = [@ EXCEPT !.ids = << >>, !.st = "builder"]]
    /\ UNCHANGED << kind, heap, vals, sink >>

\* Cloneable::new::<T>'s thunk run on the value src: the duplicate it makes,
\* which it hands to f together with TypeInfo::of::<T>()
Duplicate(vs, T, src) ==
    [ty |-> T, src |-> src, drops |-> 0, wrong |-> vs[src].ty # T, put |-> 0]

\* put of &ReusableBuiltEntity: run every slot's thunk with the sink as f
RECURSIVE CloneOut(_, _, _, _)
CloneOut(S, B, info, acc) ==
    IF info = << >> THEN acc
    ELSE LET slot == Head(info)
             d    == Duplicate(acc.vals, slot.meta, ValueAt(S, B, slot.off))
             v    == Len(acc.vals) + 1
         IN  CloneOut(S, B, Tail(info),
                [vals  |-> Append(acc.vals, [d EXCEPT !.put = 1]),
                 items |-> Append(acc.items,
                              [val |-> v, ty |-> slot.meta, off |-> slot.off])])

\* a consumption by reference that hands out the originals
PutRefMove(b) ==
    /\ bld[b].st = "reusable"
    /\ MayClone(b)
    /\ LET items == HandOver(Here, bld[b])
       IN  /\ vals' = MarkPut(vals, items)
           /\ sink' = [b |-> b, ids |-> bld[b].ids, items |-> items]
    /\ UNCHANGED << kind, bld, heap >>

PutRef(b) ==
    /\ bld[b].st = "reusable"
    /\ MayClone(b)
    /\ LET B   == bld[b]
           out == CloneOut(Here, B, B.info, [vals |-> vals, items |-> << >>])
       IN  /\ vals' = out.vals
           /\ sink' = [b |-> b, ids |-> B.ids, items |-> out.items]
    /\ UNCHANGED << kind, bld, heap >>

\* the loop of EntityBuilder<Cloneable>::clone: every slot's thunk is run on
\* the original and its duplicate is copied into the result's storage r
RECURSIVE CloneInto(_, _, _, _, _)
CloneInto(S, B, info, r, acc) ==
    IF info = << >> THEN acc
    ELSE LET slot == Head(info)
             d    == Duplicate(acc.vals, slot.meta, ValueAt(S, B, slot.off))
             v    == Len(acc.vals) + 1
         IN  CloneInto(S, B, Tail(info), r,
                [acc EXCEPT
                    !.vals = Append(@, d),
                    !.heap[r].mem = Store(@, slot.off, SizeOf(slot.meta), v)])

\* a clone that copies the fields of the struct, storage pointer included
CloneShallow(b, c) ==
    /\ kind = "cloneable"
    /\ bld[b].st \in {"builder", "reusable"}
    /\ bld[c].st = "none"
    /\ MayClone(b)
    /\ bld' = [bld EXCEPT ![c] = [bld[b] EXCEPT !.ids = << >>]]
    /\ UNCHANGED << kind, heap, vals, sink >>

\* impl Clone for EntityBuilder<Cloneable>, and the derived Clone of
\* ReusableBuiltEntity that calls it.  alloc is called with self.layout also
\* when its size is 0, where the allocator may return null or a region.
Clone(b, c) ==
    /\ kind = "cloneable"
    /\ bld[b].st \in {"builder", "reusable"}
    /\ bld[c].st = "none"
    /\ \A d \in Builders : bld[d].st = "none" => c <= d
    /\ MayClone(b)
    /\ \E null \in (IF bld[b].size = 0 THEN BOOLEAN ELSE {FALSE}) :
        LET B  == bld[b]
            r  == Len(heap) + 1
            S1 == [Here EXCEPT
                     !.heap = Append(@, [Region(B.size, B.align, << >>)
                                            EXCEPT !.null = null])]
            S2 == CloneInto(Here, B, B.info, r, S1)
        IN  Become([S2 EXCEPT !.bld[c] =
                      [B EXCEPT !.storage = IF null THEN Dangling ELSE r,
                                !.ids = << >>]])
    /\ UNCHANGED << kind, sink >>

\* a drop that releases the storage without clearing
DropBuilderLeak(b) ==
    /\ bld[b].st \in {"builder", "reusable"}
    /\ LET B == bld[b]
       IN  Become([Here EXCEPT
                !.bld[b].st = "dropped",
                !.heap = IF B.size # 0 THEN dealloc(@, B.storage) ELSE @])
    /\ UNCHANGED << kind, sink >>

\* impl Drop for EntityBuilder (a ReusableBuiltEntity drops its builder)
DropBuilder(b) ==
    /\ bld[b].st \in {"builder", "reusable"}
    /\ LET S1 == clear(Here, b)
           B  == bld[b]
       IN  Become([S1 EXCEPT
                !.bld[b].st = "dropped",
                !.heap = IF B.size # 0
                         THEN dealloc(@, B.storage)
                         ELSE @])
    /\ UNCHANGED << kind, sink >>

NoSink == [b |-> 0, ids |-> << >>, items |-> << >>]

Start ==
    /\ bld = [b \in Builders |-> IF b = 1 THEN Default ELSE Unused]
    /\ heap = << >>
    /\ vals = << >>
    /\ sink = NoSink

Init == kind = "plain" /\ Start

\* the operations on a plain builder and its BuiltEntity
Next ==
    \/ \E b \in Builders, ts \in Bundles : AddBundle(b, ts)
    \/ \E b \in Builders : Clear(b)
    \/ \E b \in Builders : Build(b)
    \/ \E b \in Builders : Put(b)
    \/ \E b \in Builders : DropBuilt(b)
    \/ \E b \in Builders : DropBuilder(b)

Spec == Init /\ [][Next]_vars

InitCloneable == kind = "cloneable" /\ Start

\* the operations on a cloneable builder and its ReusableBuiltEntity
NextCloneable ==
    \/ \E b \in Builders, ty \in Types : AddCloneable(b, ty)
    \/ \E b \in Builders : Clear(b)
    \/ \E b \in Builders : BuildCloneable(b)
    \/ \E b \in Builders : IntoBuilder(b)
    \/ \E b \in Builders : PutRef(b)
    \/ \E b \in Builders : DropBuilder(b)

SpecCloneable == InitCloneable /\ [][NextCloneable]_vars

\* the runs with clone are kept shorter
AddCloneableFew(b, ty) ==
    /\ Cardinality(Added) < MaxAddedClone
    /\ AddCloneable(b, ty)

CloneFew(b, c) ==
    /\ Cardinality(Cloned) + Len(bld[b].info) <= MaxClonedClone
    /\ Clone(b, c)

\* the cloneable builder and its ReusableBuiltEntity with clone (and without
\* put by reference, which NextCloneable has)
NextClone ==
    \/ \E b \in Builders, ty \in Types : AddCloneableFew(b, ty)
    \/ \E b \in Builders : Clear(b)
    \/ \E b \in Builders : BuildCloneable(b)
    \/ \E b \in Builders : IntoBuilder(b)
    \/ \E b, c \in Builders : CloneFew(b, c)
    \/ \E b \in Builders : DropBuilder(b)

SpecClone == InitCloneable /\ [][NextClone]_vars

\* both flavours: a run is a run of a plain or of a cloneable builder
InitAny == Init \/ InitCloneable

NextAny == Next \/ NextCloneable

SpecAny == InitAny /\ [][NextAny]_vars

\* ------------------------------------------------------------ properties
\* the builder struct b exists (as a builder, borrowed by a BuiltEntity, or
\* inside a ReusableBuiltEntity)
Live(b) == bld[b].st \in {"builder", "built", "reusable"}

\* the type identifiers of the slots of the directory
SlotTypes(B) == {B.info[i].ty : i \in DOMAIN B.info}

\* the values the slots of builder b hold
Held(b) == {ValueAt(Here, bld[b], bld[b].info[i].off) : i \in DOMAIN bld[b].info}

\* the state after the step
There == [bld |-> bld', heap |-> heap', vals |-> vals']

\* C1: plain builder, any sequence of add, add_bundle, overwrite, clear,
\* build, put and BuiltEntity drop: no value is both destructed and handed
\* to a sink, or destructed or handed over twice; and once the builder is
\* dropped every value ever added was destructed exactly once or handed to
\* a sink exactly once.
C1_NoLeakNoDoubleFree ==
    \A v \in DOMAIN vals :
        /\ vals[v].drops + vals[v].put <= 1
        /\ bld[1].st = "dropped" => vals[v].drops + vals[v].put = 1

\* a dropped builder after an overwrite, a put and a drop without build
C1_Witness ==
    /\ kind = "plain"
    /\ bld[1].st = "dropped"
    /\ Len(vals) >= 3
    /\ \E v \in DOMAIN vals : vals[v].put = 1
    /\ \E v, w \in DOMAIN vals :
            v # w /\ vals[v].ty = vals[w].ty /\ vals[v].drops = 1 /\ vals[w].drops = 1


\* C2: cloneable builder, any sequence of add, overwrite, clear, build,
\* conversion back into a builder and drop: no value is destructed twice or
\* through another type's descriptor, and once the owner is dropped every
\* value ever added was destructed exactly once.
C2_DestructedOnceByOwnType ==
    \A v \in Added :
        /\ vals[v].drops <= 1
        /\ ~vals[v].wrong
        /\ bld[1].st = "dropped" => vals[v].drops = 1

\* the slot of the directory of B whose type identifier is ty
SlotOf(B, ty) == B.info[CHOOSE i \in DOMAIN B.info : B.info[i].ty = ty]

\* C3: adding a value of a type the builder already holds leaves exactly one
\* slot for the type, holding the new value, leaves the number of slots
\* unchanged, and destructs the previously held value of the type exactly
\* once, at the overwrite.
C3_OverwriteReplaces ==
    [][\A ty \in Types :
        (AddCloneable(1, ty) /\ ty \in SlotTypes(bld[1])) =>
            LET old == ValueAt(Here, bld[1], SlotOf(bld[1], ty).off)
            IN  /\ Cardinality({i \in DOMAIN bld'[1].info : bld'[1].info[i].ty = ty}) = 1
                /\ Len(bld'[1].info) = Len(bld[1].info)
                /\ ValueAt(There, bld'[1], SlotOf(bld'[1], ty).off) = Len(vals')
                /\ vals[old].drops = 0
                /\ vals'[old].drops = 1
    ]_vars


\* the builder struct B is empty
Empty(B) ==
    B.info = << >> /\ B.indices = << >> /\ B.ids = << >> /\ B.cursor = 0

\* C4: clear() after any sequence of inserts and overwrites leaves the
\* directory, the index and the id snapshot empty and the cursor 0, has
\* destructed every value held just before exactly once, and leaves the
\* store's capacity and alignment unchanged; a second clear() right after
\* runs no destructor and changes nothing.
C4_ClearEmptiesOnce ==
    [][Clear(1) =>
        /\ Empty(bld'[1])
        /\ \A v \in Held(1) : vals[v].drops = 0 /\ vals'[v].drops = 1
        /\ bld'[1].size = bld[1].size
        /\ bld'[1].align = bld[1].align
        /\ bld'[1].storage = bld[1].storage
        /\ clear(There, 1) = There
    ]_vars

\* a cleared builder that keeps a grown store, after an overwrite
C4_Witness ==
    /\ bld[1].st = "builder"
    /\ Empty(bld[1])
    /\ bld[1].size = 128
    /\ Len(vals) >= 3
    /\ \A v \in DOMAIN vals : vals[v].drops = 1 /\ vals[v].put = 0
    /\ \E v, w \in DOMAIN vals : v # w /\ vals[v].ty = vals[w].ty

\* C5: in every reachable builder state every slot's offset is a multiple of
\* its type's alignment, the slot ends within the store's capacity, and the
\* store's alignment is at least the alignment of every slot's type; the
\* capacity and alignment are those of the region the store points to.
C5_SlotsAlignedAndInBounds ==
    \A b \in Builders : Live(b) =>
        LET B == bld[b] IN
        /\ \A i \in DOMAIN B.info :
            /\ B.info[i].off % AlignOf(B.info[i].ty) = 0
            /\ B.info[i].off + SizeOf(B.info[i].ty) <= B.size
            /\ AlignOf(B.info[i].ty) <= B.align
        /\ B.storage # Dangling =>
            /\ heap[B.storage].size = B.size
            /\ heap[B.storage].align = B.align
            /\ heap[B.storage].freed = 0

\* three slots, after a growth by alignment alone and a growth by size
C5_Witness ==
    /\ Len(bld[1].info) = 3
    /\ bld[1].align = 16
    /\ bld[1].size = 128
    /\ Len(heap) = 3
    /\ heap[2].size = 64

\* the identifiers of the set S of types, in the descriptor sort order
SortedIds(S) ==
    CHOOSE s \in [1 .. Cardinality(S) -> S] :
        \A i, j \in DOMAIN s : i < j => TypeInfoLess(s[i], s[j])

\* C6: what build yields (BuiltEntity or ReusableBuiltEntity) has as its
\* type-identifier sequence the identifiers of the set of inserted types in
\* the descriptor sort order, each once, whatever the order of the inserts
\* and the overwrites in between.
C6_SignatureIsSortedSet ==
    \A b \in Builders : bld[b].st \in {"built", "reusable"} =>
        bld[b].ids = SortedIds(DOMAIN bld[b].indices)

\* a bundle of two types inserted out of order, with an overwrite
C6_Witness ==
    /\ bld[1].st \in {"built", "reusable"}
    /\ bld[1].ids = << 1, 3 >>
    /\ bld[1].indices[3] = 1
    /\ bld[1].indices[1] = 2
    /\ \E v \in DOMAIN vals : vals[v].drops = 1


\* the most recently added value of type ty
Latest(ty) ==
    CHOOSE v \in Added : /\ vals[v].ty = ty
                         /\ \A w \in Added : vals[w].ty = ty => w <= v

\* C7: BuiltEntity::put hands every slot present at build time to the sink
\* exactly once, in the order of the id snapshot, each with its own type
\* descriptor and its current value, and no destructor runs on a handed-over
\* value (nor on any other) during put or in the clear that follows.
C7_PutHandsOverEverySlotOnce ==
    [][Put(1) =>
        LET B == bld[1]
            items == sink'.items
        IN  /\ Len(items) = Len(B.ids)
            /\ {items[i].ty : i \in DOMAIN items} = DOMAIN B.indices
            /\ \A i \in DOMAIN items :
                /\ items[i].ty = B.ids[i]
                /\ vals[items[i].val].ty = items[i].ty
                /\ items[i].val = Latest(items[i].ty)
                /\ items[i].val = ValueAt(Here, B, items[i].off)
                /\ vals'[items[i].val].put = 1
                /\ vals'[items[i].val].drops = 0
            /\ \A i, j \in DOMAIN items : i # j => items[i].val # items[j].val
            /\ \A v \in DOMAIN vals : vals'[v].drops = vals[v].drops
    ]_vars

\* a put of two slots that were inserted out of order, one of them overwritten
C7_Witness ==
    /\ sink.b = 1
    /\ Len(sink.items) >= 2
    /\ sink.items[1].val > sink.items[2].val
    /\ \E v \in DOMAIN vals : vals[v].drops = 1 /\ vals[v].ty = sink.items[1].ty
    /\ \A i \in DOMAIN sink.items : vals[sink.items[i].val].put = 1

\* the values that were added and neither destructed nor handed over yet
Buffered == {v \in DOMAIN vals : vals[v].drops = 0 /\ vals[v].put = 0}

\* C8: when a BuiltEntity ends, by put or by being dropped without put, the
\* builder is left empty; dropped without put, every buffered value has been
\* destructed exactly once; and the next build's slots hold exactly the
\* values added since, its id snapshot exactly their types.
C8_BuiltEntityEndLeavesBuilderReusable ==
    [][/\ (Put(1) \/ DropBuilt(1)) =>
            /\ Empty(bld'[1])
            /\ bld'[1].st = "builder"
       /\ DropBuilt(1) =>
            \A v \in Held(1) : vals[v].drops = 0 /\ vals'[v].drops = 1
       /\ Build(1) =>
            LET B == bld'[1] IN
            /\ Held(1) = Buffered
            /\ Len(B.info) = Cardinality(Buffered)
            /\ B.ids = SortedIds({vals[v].ty : v \in Buffered})
            /\ \A i \in DOMAIN B.info :
                /\ B.info[i].ty = B.ids[i]
                /\ vals[ValueAt(There, B, B.info[i].off)].ty = B.info[i].ty
                /\ ValueAt(There, B, B.info[i].off) \in Buffered
    ]_vars

\* a second cycle: built again after one bundle was put and one was dropped
C8_Witness ==
    /\ bld[1].st = "built"
    /\ Len(bld[1].ids) >= 1
    /\ \E v \in DOMAIN vals : vals[v].put = 1
    /\ \E v \in DOMAIN vals : vals[v].drops = 1
    /\ \E v \in Held(1) : vals[v].ty = vals[1].ty /\ v # 1

\* C9: put on &ReusableBuiltEntity leaves the bundle (directory, offsets,
\* cursor, id snapshot), its store and the stored values unchanged and runs
\* no destructor; it hands the sink one fresh duplicate per slot, made from
\* the slot's value, so every consumption yields duplicates distinct from
\* all earlier ones and the bundle stays consumable.
C9_PutRefClonesAndLeavesBundle ==
    [][PutRef(1) =>
        LET B == bld[1]
            items == sink'.items
        IN  /\ bld' = bld
            /\ heap' = heap
            /\ \A v \in DOMAIN vals : vals'[v] = vals[v]
            /\ Len(vals') = Len(vals) + Len(B.info)
            /\ Len(items) = Len(B.info)
            /\ \A i \in DOMAIN items :
                /\ items[i].val = Len(vals) + i
                /\ items[i].ty = B.info[i].ty
                /\ vals'[items[i].val].src = ValueAt(Here, B, B.info[i].off)
                /\ vals'[items[i].val].drops = 0
                /\ vals'[items[i].val].put = 1
    ]_vars

\* a bundle of two slots consumed twice
C9_Witness ==
    /\ bld[1].st = "reusable"
    /\ Len(bld[1].info) = 2
    /\ sink.b = 1
    /\ Cardinality(Cloned) = 4
    /\ \E v, w \in Cloned : v # w /\ vals[v].src = vals[w].src
    /\ \A v \in Held(1) : vals[v].drops = 0 /\ vals[v].put = 0

\* C10: on every builder, has::<T>() is true exactly when a slot of type T
\* is held; get::<T>() and get_mut::<T>() are absent when none is held, and
\* otherwise refer to the offset of the slot whose type identifier is T,
\* which holds the most recently added value of type T.
C10_QueriesFindTheSlot ==
    \A b \in Builders : bld[b].st = "builder" =>
        \A T \in Types :
            LET B == bld[b] IN
            /\ has(B, T) <=> T \in SlotTypes(B)
            /\ T \notin SlotTypes(B) => get(B, T) = Absent
            /\ T \in SlotTypes(B) =>
                /\ get(B, T) = SlotOf(B, T).off
                /\ ValueAt(Here, B, get(B, T)) = Latest(T)


\* DynamicBundle::with_ids of a bundle view: the id snapshot
with_ids(B) == B.ids

\* DynamicBundle::type_info of a bundle view, by type identifier; put
\* iterates the same directory in the same order
type_info(B) == [i \in 1 .. Len(B.info) |-> B.info[i].ty]

\* C11: for every bundle view (a BuiltEntity, a ReusableBuiltEntity from
\* build, a ReusableBuiltEntity from clone) the sequence given by with_ids
\* equals, element for element, the identifiers of type_info and of the
\* slots put iterates, without duplicates.
C11_IdsMatchDirectory ==
    \A b \in Builders : bld[b].st \in {"built", "reusable"} =>
        /\ with_ids(bld[b]) = type_info(bld[b])
        /\ \A i, j \in DOMAIN bld[b].ids :
                i # j => bld[b].ids[i] # bld[b].ids[j]


\* the step is an operation of the owner of builder x
ActsOn(x) ==
    \/ \E ty \in Types : AddCloneable(x, ty)
    \/ Clear(x)
    \/ BuildCloneable(x)
    \/ IntoBuilder(x)
    \/ PutRef(x)
    \/ DropBuilder(x)

\* builder y, its region and the values its slots hold are as before the step
Untouched(y) ==
    /\ bld'[y] = bld[y]
    /\ bld[y].storage # Dangling => heap'[bld[y].storage] = heap[bld[y].storage]
    /\ \A v \in Held(y) : vals'[v] = vals[v]

\* C12: cloning a cloneable builder gives a builder with the same capacity,
\* alignment, cursor and directory whose every slot holds a new value made
\* by the slot's clone thunk from the original's value at that slot, and
\* leaves the original unchanged; afterwards no operation on either of the
\* two destructs or changes a value that the other holds.
C12_CloneIsDeepAndIndependent ==
    [][/\ \A b, c \in Builders : Clone(b, c) =>
            /\ Untouched(b)
            /\ \A v \in DOMAIN vals : vals'[v] = vals[v]
            /\ bld'[c].size = bld[b].size
            /\ bld'[c].align = bld[b].align
            /\ bld'[c].cursor = bld[b].cursor
            /\ bld'[c].info = bld[b].info
            /\ bld'[c].storage # bld[b].storage \/ bld[b].size = 0
            /\ \A i \in DOMAIN bld[b].info :
                LET off == bld[b].info[i].off
                    d   == ValueAt(There, bld'[c], off)
                IN  /\ d \notin DOMAIN vals
                    /\ vals'[d].src = ValueAt(Here, bld[b], off)
                    /\ vals'[d].ty = bld[b].info[i].meta
                    /\ vals'[d].drops = 0
       /\ \A x, y \in Builders :
            Untouched(y) \/ ~(x # y /\ Live(y) /\ ActsOn(x))]_vars

\* the original was dropped with its values destructed, and the clone still
\* holds two duplicates, none destructed
C12_Witness ==
    /\ bld[1].st = "dropped"
    /\ Live(2)
    /\ Cardinality(Held(2)) = 2
    /\ \A v \in Held(2) :
            /\ vals[v].drops = 0
            /\ vals[v].src # 0
            /\ vals[vals[v].src].drops = 1


\* ---------------------------------------------- allocation failure in grow
\* alloc returning null is not tested (NonNull::new_unchecked): what follows
\* is undefined.  The process may stop at the copy of the live prefix to
\* null, stop at the copy of the component to null + offset, or run on.
Outcomes == {"stops at prefix copy", "stops at component copy", "runs on"}

\* add_inner's Vacant arm with reallocation, where alloc gives null
add_inner_null(S, b, v, ty, meta, outcome) ==
    LET B      == S.bld[b]
        offset == SlotOffset(B, ty)
        end    == offset + SizeOf(ty)
        new_align   == Max(B.align, AlignOf(ty))
        new_storage == Len(S.heap) + 1
        failed == [Region(Max(next_power_of_two(end), 64), new_align, << >>)
                      EXCEPT !.null = TRUE]
        prefix == IF B.storage = Dangling THEN << >>
                  ELSE Prefix(S.heap[B.storage].mem, B.cursor)
        heap1  == Append(S.heap, failed)
        heap2  == [heap1 EXCEPT ![new_storage].mem = prefix]
        heap3  == IF B.size # 0 THEN dealloc(heap2, B.storage) ELSE heap2
        B3     == [B EXCEPT !.storage = new_storage,
                            !.size    = failed.size,
                            !.align   = new_align]
    IN  CASE outcome = "stops at prefix copy" ->
                [S EXCEPT !.heap = heap1, !.bld[b].st = "aborted"]
          [] outcome = "stops at component copy" ->
                [S EXCEPT !.heap = heap3, !.bld[b] = [B3 EXCEPT !.st = "aborted"]]
          [] outcome = "runs on" ->
                [S EXCEPT
                    !.heap = [heap3 EXCEPT ![new_storage].mem =
                                    Store(@, offset, SizeOf(ty), v)],
                    !.bld[b] = [B3 EXCEPT
                        !.indices = (ty :> (Len(B.info) + 1)) @@ @,
                        !.info    = Append(@, [ty |-> ty, off |-> offset, meta |-> meta]),
                        !.cursor  = end,
                        !.st      = "undefined"]]

\* add of a component of a new type that has to reallocate, with the
\* allocator out of memory
AddFails(b, ty, outcome) ==
    /\ bld[b].st = "builder"
    /\ MayAdd(1)
    /\ ty \notin DOMAIN bld[b].indices
    /\ NeedsGrow(bld[b], ty, SlotOffset(bld[b], ty) + SizeOf(ty))
    /\ outcome = "stops at prefix copy" => bld[b].cursor > 0
    /\ LET v  == Len(vals) + 1
           S1 == [Here EXCEPT !.vals = Append(@, NewValue(ty))]
       IN  Become(add_inner_null(S1, b, v, ty,
                                 IF kind = "plain" THEN "unit" ELSE ty, outcome))
    /\ UNCHANGED << kind, sink >>

NextOom ==
    \/ NextAny
    \/ \E b \in Builders, ty \in Types, outcome \in Outcomes :
            AddFails(b, ty, outcome)

SpecOom == InitAny /\ [][NextOom]_vars

\* C13: when the allocation of a growth fails the operation is fatal: the
\* process terminates with no byte copied into the failed allocation, the
\* old region not released, and the builder's storage, layout, directory
\* and cursor not replaced by a state that refers to the failed allocation.
C13_AllocFailureIsFatal ==
    [][\A b \in Builders, ty \in Types, outcome \in Outcomes :
        AddFails(b, ty, outcome) =>
            /\ bld'[b].st = "aborted"
            /\ heap'[Len(heap')].mem = << >>
            /\ bld[b].storage # Dangling =>
                    heap'[bld[b].storage] = heap[bld[b].storage]
            /\ bld'[b].storage = bld[b].storage
            /\ bld'[b].size = bld[b].size
            /\ bld'[b].align = bld[b].align
            /\ bld'[b].info = bld[b].info
            /\ bld'[b].cursor = bld[b].cursor]_vars


\* C14: in every reachable state of every builder and bundle the index and
\* the directory agree: the keys of the index are the type identifiers of
\* the directory, the directory entries are pairwise distinct by type
\* identifier, and for every key the directory entry at the indexed
\* position has that type identifier.
C14_IndexAgreesWithDirectory ==
    \A b \in Builders : Live(b) =>
        LET B == bld[b] IN
        /\ DOMAIN B.indices = SlotTypes(B)
        /\ \A i, j \in DOMAIN B.info : i # j => B.info[i].ty # B.info[j].ty
        /\ \A ty \in DOMAIN B.indices :
                /\ B.indices[ty] \in DOMAIN B.info
                /\ B.info[B.indices[ty]].ty = ty


\* the smallest multiple of al that is at least x
RoundUp(x, al) == CHOOSE m \in x .. (x + al - 1) : m % al = 0

IsPowerOfTwo(n) == \E k \in 0 .. 16 : n = 2 ^ k

\* the step adds one component of type ty, which builder b has no slot for
InsertsNew(b, ty) ==
    /\ ty \notin DOMAIN bld[b].indices
    /\ AddBundle(b, << ty >>) \/ AddCloneable(b, ty)

\* C15: an insert of a new type reallocates exactly when
\* end = round_up(cursor, align of the type) + size of the type exceeds the
\* capacity or the type's alignment exceeds the store's; after the growth
\* the capacity is the smallest power of two that is at least end and at
\* least 64, and the alignment is the larger of the old one and the type's.
\* Otherwise capacity, alignment and region stay as they were.
C15_GrowthPolicy ==
    [][\A b \in Builders, ty \in Types : InsertsNew(b, ty) =>
        LET B    == bld[b]
            B2   == bld'[b]
            end  == RoundUp(B.cursor, AlignOf(ty)) + SizeOf(ty)
            must == end > B.size \/ AlignOf(ty) > B.align
        IN  /\ (Len(heap') = Len(heap) + 1) <=> must
            /\ Len(heap') = Len(heap) <=> ~must
            /\ must =>
                /\ B2.storage = Len(heap')
                /\ heap'[B2.storage].size = B2.size
                /\ heap'[B2.storage].align = B2.align
                /\ IsPowerOfTwo(B2.size)
                /\ B2.size >= end
                /\ B2.size >= 64
                /\ B2.size = 64 \/ B2.size \div 2 < end
                /\ B2.align = Max(B.align, AlignOf(ty))
            /\ ~must =>
                /\ B2.storage = B.storage
                /\ B2.size = B.size
                /\ B2.align = B.align]_vars

\* three single inserts, each with a reallocation: the first from the
\* empty store, the second for the alignment only, the third for the size
C15_Witness ==
    /\ Len(heap) = 3
    /\ Len(bld[1].info) = 3
    /\ heap[1].size = 64 /\ heap[1].align = 8
    /\ heap[2].size = 64 /\ heap[2].align = 16
    /\ heap[3].size = 128 /\ heap[3].align = 16
    /\ bld[1].storage = 3


\* the end offset+size of slot i of the directory of B
EndOf(B, i) == B.info[i].off + SizeOf(B.info[i].ty)

\* the largest end of a slot of B, 0 for the empty directory
MaxEnd(B) ==
    IF B.info = << >> THEN 0
    ELSE CHOOSE e \in {EndOf(B, i) : i \in DOMAIN B.info} :
            \A j \in DOMAIN B.info : EndOf(B, j) <= e

\* the step runs clear on builder b: called by the owner, or by the drop
\* of the BuiltEntity or of the builder
RunsClear(b) == Clear(b) \/ Put(b) \/ DropBuilt(b) \/ DropBuilder(b)

\* the cursor of every builder is the largest offset+size over its slots
\* (0 when the directory is empty) and at most the capacity
CursorIsEnd ==
    \A b \in Builders : Live(b) =>
        /\ bld[b].cursor = MaxEnd(bld[b])
        /\ bld[b].cursor <= bld[b].size

\* an overwrite leaves the cursor, an insert of a new type does not lower
\* it, and a step that lowers it is a clear and lowers it to 0
CursorMoves ==
    \A b \in Builders :
        /\ \A ty \in DOMAIN bld[b].indices :
                (AddBundle(b, << ty >>) \/ AddCloneable(b, ty)) =>
                    bld'[b].cursor = bld[b].cursor
        /\ \A ty \in Types : InsertsNew(b, ty) => bld'[b].cursor >= bld[b].cursor
        /\ bld'[b].cursor < bld[b].cursor =>
                bld'[b].cursor = 0 /\ RunsClear(b)

\* C16: the cursor equals the largest offset+size over the slots (0 for the
\* empty directory) and never exceeds the capacity; overwriting leaves it
\* unchanged, inserting a new type never decreases it, and only clear (the
\* clear at the end of a BuiltEntity included) lowers it, to 0.
C16_CursorIsHighWaterMark == [](CursorIsEnd) /\ [][CursorMoves]_vars

\* two slots, an overwrite of one, then a put: the cursor is back at 0
C16_Witness ==
    /\ kind = "plain"
    /\ sink.b = 1 /\ Len(sink.items) = 2
    /\ bld[1].st = "builder" /\ bld[1].cursor = 0 /\ bld[1].size = 64
    /\ Len(vals) = 3


\* C17: inserting a component of a new type leaves every existing slot's
\* descriptor, offset, metadata and stored value unchanged and runs no
\* destructor, also when the insert reallocates; the new slot is appended
\* to the directory at offset round_up(cursor, align of the type) and holds
\* the inserted value.
C17_InsertFrame ==
    [][\A b \in Builders, ty \in Types : InsertsNew(b, ty) =>
        LET B    == bld[b]
            B2   == bld'[b]
            new  == Len(B.info) + 1
            mem  == heap[B.storage].mem
            mem2 == heap'[B2.storage].mem
        IN  /\ Len(B2.info) = new
            /\ \A i \in DOMAIN B.info :
                /\ B2.info[i] = B.info[i]
                /\ B.info[i].off \in DOMAIN mem2
                /\ mem2[B.info[i].off] = mem[B.info[i].off]
            /\ \A v \in DOMAIN vals : vals'[v] = vals[v]
            /\ Len(vals') = Len(vals) + 1
            /\ B2.info[new].ty = ty
            /\ B2.info[new].off = RoundUp(B.cursor, AlignOf(ty))
            /\ B2.info[new].meta = (IF kind = "plain" THEN "unit" ELSE ty)
            /\ B2.info[new].off \in DOMAIN mem2
            /\ mem2[B2.info[new].off] = [val |-> Len(vals'), len |-> SizeOf(ty)]
            /\ vals'[Len(vals')] = NewValue(ty)]_vars

\* a second slot inserted at offset 8 with a reallocation from 64 to 128
\* bytes, the first slot's region released
C17_Witness ==
    /\ Len(heap) = 2
    /\ heap[1].size = 64 /\ heap[1].freed = 1
    /\ heap[2].size = 128 /\ heap[2].freed = 0
    /\ Len(bld[1].info) = 2
    /\ bld[1].info[2].off = 8
    /\ \A v \in Held(1) : vals[v].drops = 0


\* C18: every region the builder gets from the allocator is released
\* exactly once: the old region of a growth when the previous capacity was
\* not zero, the last region at drop; the placeholder of capacity zero is
\* never released and no region of size 0 is ever requested.
C18_RegionsReleasedOnce ==
    \A r \in DOMAIN heap :
        /\ heap[r].size > 0
        /\ heap[r].freed <= 1
        /\ heap[r].freed = 0 <=>
                \E b \in Builders : Live(b) /\ bld[b].storage = r


\* C19: the capacity of a builder never decreases over its lifetime, also
\* not on an insert into a cleared builder whose reallocation is due only
\* to a larger alignment.
C19_CapacityNeverDecreases ==
    [][\A b \in Builders : bld'[b].size >= bld[b].size]_vars


====
